---- MODULE Spec2Model ----
(***************************************************************************)
(* Model of the real-time signaling relay of securechat                    *)
(* (src/server/routes.ts): the connectedClients registry, the WebSocket    *)
(* 'connection', 'message' and 'close' handlers and broadcastMessage.      *)
(* Node runs each handler to completion, so each handler is one action.    *)
(* The second half models the storage layer behind the message routes      *)
(* (DatabaseStorage.addMessage, clearConversationMessages,                 *)
(* getConversationsToClean) and the retention sweep built on them; every   *)
(* database statement is one step.                                         *)
(***************************************************************************)
EXTENDS Integers, Sequences, FiniteSets, TLC

\* ---------------------------------------------------------------- bounds
MaxMsgs == 2         \* non-auth inbound messages plus broadcasts handled in a run
MaxStored == 2       \* messages stored through POST /api/conversations/:id/messages
MaxSweeps == 2       \* retention sweeps started in a run

\* the connections accepted during a run (in this order), the user
\* identifiers, the opaque payloads and the conversation ids
Conns == {1, 2}
Users == {"u1", "u2"}
Payloads == {"sdp"}
ConvIds == {"conv7"}

\* JavaScript undefined, an absent field (falsy)
None == "undefined"
\* connectedClients.get(...) === undefined
NoConn == 0

\* SignalingMessage.type
SignalingKinds ==
  {"offer", "answer", "ice-candidate", "call-start", "call-end",
   "call-accept", "call-reject"}

\* the type tags of the non-auth frames clients send in the model: one of the
\* seven signaling kinds and a tag that is none of them
MsgTypes == {"offer", "chat"}

\* The parsed JSON of one inbound frame: SignalingMessage & { userId?, from? }.
\* Auth frames are { userId } and { type: 'auth', userId }; the other frames
\* carry a conversation id, as the call modals only send with one set.
AuthMessages ==
  [type : {None, "auth"}, userId : Users, target : {None},
   from : {None}, data : {None}, conversationId : {None}]

RelayMessages ==
  [type : MsgTypes, userId : {None}, target : {None} \cup Users,
   from : {None} \cup Users, data : Payloads, conversationId : ConvIds]

VARIABLES
  readyState,        \* ws.readyState of every connection ("NONE" before it is accepted)
  userId,            \* ws.userId
  connectedClients,  \* Map<string, WebSocketWithUser>; NoConn = no entry
  inbox,             \* frames sent to each connection with ws.send, in order
  nextId,            \* number of non-auth messages and broadcasts handled so far
  dropped,           \* history: messages handled while their target was unreachable
  rejected,          \* history: messages handled from a connection with no identity
  unparsed,          \* history: frames whose handling threw before any branch ran
  now,               \* the clock read by new Date(), in days
  conversations,     \* conversations table: autoClearAfter, lastMessageAt, lastClearedAt
  messages,          \* messages table: id, conversationId, senderId
  msgSeq,            \* the serial behind messages.id
  addPc,             \* the POST in flight between its insert and its update, or NoMsg
  response,          \* status of the last POST answered ("none" before the first)
  sendFailed,        \* history: connection whose send threw in the last broadcast
  sweepPc,           \* "idle" or "clearing"
  sweepTodo,         \* conversations of the due list not cleared yet
  clearing,          \* conversation between its delete and its update, or NoConv
  sweeps,            \* number of sweeps started
  swept,             \* history: the last sweep run to completion, or NoSweep
  clearCount,        \* history: clears of each conversation since its last new message
  deleteCount,       \* history: those of them that deleted at least one message
  quiet,             \* history: nothing but sweep steps ran since the last sweep ended
  modal,             \* the chat page's call state and the two call modals
  hook,              \* useWebSocket: the refs, the flag, the sockets and the timers
  pairs,             \* conversations table by participants, and the calls in flight
  clearSettings      \* the last PUT .../clear-settings and its status (0 before the first)

relayVars == <<readyState, userId, connectedClients, inbox, nextId, dropped, rejected, unparsed>>

storeVars == <<now, conversations, messages, msgSeq, addPc, response, sendFailed>>

sweepVars == <<sweepPc, sweepTodo, clearing, sweeps, swept, clearCount, deleteCount, quiet>>

clientVars == <<modal, hook, pairs, clearSettings>>

vars == <<relayVars, storeVars, sweepVars, clientVars>>

\* ------------------------------------------------------------ the handlers

\* (data.userId && !data.type) || (data.type === 'auth' && data.userId)
IsAuth(data) ==
  \/ data.userId # None /\ data.type = None
  \/ data.type = "auth" /\ data.userId # None

\* connectedClients.set(data.userId, ws)
Register(clients, uid, ws) == [clients EXCEPT ![uid] = ws]

\* ws.userId && data.target
CanRelay_NoSenderCheck(ws, data) == data.target # None

CanRelay(ws, data) == userId[ws] # None /\ data.target # None

\* targetWs && targetWs.readyState === WebSocket.OPEN
TargetOpen_NoStateCheck(targetWs) == targetWs # NoConn

TargetOpen(targetWs) == targetWs # NoConn /\ readyState[targetWs] = "OPEN"

\* { ...data, from: ws.userId }
messageToSend_KeepFrom(ws, data) ==
  [data EXCEPT !.from = IF data.from # None THEN data.from ELSE userId[ws]]

messageToSend_DropConversation(ws, data) ==
  [data EXCEPT !.from = userId[ws], !.conversationId = None]

messageToSend(ws, data) == [data EXCEPT !.from = userId[ws]]

\* targetWs.send(...): frames leave in the order of the send calls
Send_Prepend(box, c, frames) == [box EXCEPT ![c] = frames \o @]

Send(box, c, frames) == [box EXCEPT ![c] = @ \o frames]

\* the registry after one 'message' event: only an auth frame writes it
RegistryAfterMessage_DropSender(ws, data) ==
  IF IsAuth(data)
    THEN Register(connectedClients, data.userId, ws)
    ELSE IF CanRelay(ws, data) /\ ~TargetOpen(connectedClients[data.target])
           THEN [connectedClients EXCEPT ![userId[ws]] = NoConn]
           ELSE connectedClients

RegistryAfterMessage(ws, data) ==
  IF IsAuth(data)
    THEN Register(connectedClients, data.userId, ws)
    ELSE connectedClients

\* the target is not registered, or its registered connection is not open
Unreachable(t) ==
  connectedClients[t] = NoConn \/ readyState[connectedClients[t]] # "OPEN"

\* ---- storage layer: tables and pure functions ----

Conversations == {"conv7", "conv8"}
Policies == {"never", "24h", "1week", "30days"}
\* instants at which the clock is read: every threshold is met exactly and exceeded
TimePoints == {0, 1, 2, 7, 8, 30, 31}
NoTime == -1         \* lastClearedAt of a conversation never cleared (SQL NULL)
NoMsg == [id |-> 0, conversationId |-> "none", senderId |-> "undefined"]
NoConv == "none"     \* no conversation
Sender == "u1"       \* req.session.userId of the posting client
NoSweep == [at |-> NoTime, due |-> {}, again |-> {}, before |-> {}, cleared |-> <<>>]

\* 24 * 60 * 60 * 1000 ms, 7 and 30 times as much: the clock counts days
OneDay == 1
OneWeek == 7
ThirtyDays == 30

Latest(a, b) == IF a >= b THEN a ELSE b

\* the or(...) of getConversationsToClean, on one row
IsDue_Inclusive(conv, t) ==
  \/ conv.autoClearAfter = "24h" /\ conv.lastMessageAt <= t - OneDay
  \/ conv.autoClearAfter = "1week" /\ conv.lastMessageAt <= t - OneWeek
  \/ conv.autoClearAfter = "30days" /\ conv.lastMessageAt <= t - ThirtyDays

IsDue_SinceClear(conv, t) ==
  IsDue_Inclusive([conv EXCEPT !.lastMessageAt = Latest(conv.lastMessageAt, conv.lastClearedAt)], t - 1)

IsDue(conv, t) ==
  \/ conv.autoClearAfter = "24h" /\ conv.lastMessageAt < t - OneDay
  \/ conv.autoClearAfter = "1week" /\ conv.lastMessageAt < t - OneWeek
  \/ conv.autoClearAfter = "30days" /\ conv.lastMessageAt < t - ThirtyDays

getConversationsToClean(rows, t) == {c \in Conversations : IsDue(rows[c], t)}

MessagesOf(msgs, c) == {m \in msgs : m.conversationId = c}

\* db.delete(messages).where(eq(messages.conversationId, conversationId))
DeleteMessages_OneRow(msgs, c) ==
  IF MessagesOf(msgs, c) = {} THEN msgs
  ELSE msgs \ {CHOOSE m \in MessagesOf(msgs, c) : \A o \in MessagesOf(msgs, c) : m.id <= o.id}

DeleteMessages(msgs, c) == {m \in msgs : m.conversationId # c}

\* db.update(conversations).set({ lastClearedAt: new Date() })
StampCleared_Skip(rows, c, t) == rows

StampCleared_BumpActivity(rows, c, t) ==
  [rows EXCEPT ![c].lastClearedAt = t, ![c].lastMessageAt = t]

StampCleared(rows, c, t) == [rows EXCEPT ![c].lastClearedAt = t]

\* db.update(conversations).set({ lastMessageAt: new Date() })
BumpActivity_Skip(rows, c, t) == rows

BumpActivity(rows, c, t) == [rows EXCEPT ![c].lastMessageAt = t]

\* ---- the client hooks and modals, and the routes on conversations ----

Kinds == {"voice", "video"}

NoCall == "none"

\* nothing sent with sendWebSocketMessage yet
NoSent == [type |-> "none", target |-> None, callType |-> "none"]

\* currentConversation.otherUser.id once the conversations query has data
Peer == "u2"

selectedConversationId == 7

\* isOpen, callInitiatedRef and the histories of an opening hold the kinds
\* of the modals for which they are true
ModalIdle ==
  modal = [isOpen |-> {},
           isIncomingCall |-> FALSE,
           incomingCall |-> NoCall,
           callInitiatedRef |-> {},
           loaded |-> FALSE,
           openedIncoming |-> {},
           started |-> {},
           repeated |-> {},
           lastSent |-> NoSent]

MaxSockets == 9

Sockets == 1..MaxSockets

\* sockets that may be short of their close event at one time
MaxLive == 2

maxReconnectAttempts == 5

NormalClosure == 1000

\* the account that logs in and out of the page
Accounts == {"u1"}

\* sock and code hold one entry for every socket created so far
HookIdle ==
  hook = [user |-> None,
          sock |-> <<>>,
          code |-> <<>>,
          wsRef |-> 0,
          isConnected |-> FALSE,
          reconnectAttempts |-> 0,
          timerRef |-> FALSE,
          timersOther |-> 0,
          sendResult |-> "none"]

MaxRows == 3

Requests == {1, 2}

NoPair == <<>>

PairsIdle ==
  pairs = [table |-> {},
           serial |-> 0,
           inFlight |-> [r \in Requests |-> NoPair],
           returned |-> [r \in Requests |-> 0]]

NoRequest == [id |-> NoConv, autoClearAfter |-> None, status |-> 0]

ClientIdle ==
  /\ ModalIdle
  /\ HookIdle
  /\ PairsIdle
  /\ clearSettings = NoRequest

StoreIdle ==
  /\ now = 0
  /\ messages = {}
  /\ msgSeq = 0
  /\ addPc = NoMsg
  /\ response = "none"
  /\ sendFailed = NoConn
  /\ sweepPc = "idle"
  /\ sweepTodo = {}
  /\ clearing = NoConv
  /\ sweeps = 0
  /\ swept = NoSweep
  /\ clearCount = [c \in Conversations |-> 0]
  /\ deleteCount = [c \in Conversations |-> 0]
  /\ quiet = FALSE

RelayIdle ==
  /\ readyState = [c \in Conns |-> "NONE"]
  /\ userId = [c \in Conns |-> None]
  /\ connectedClients = [u \in Users |-> NoConn]
  /\ inbox = [c \in Conns |-> <<>>]
  /\ nextId = 0
  /\ dropped = {}
  /\ rejected = {}
  /\ unparsed = {}

Init ==
  /\ RelayIdle
  /\ StoreIdle
  /\ ClientIdle
  /\ conversations = [c \in Conversations |->
       [autoClearAfter |-> "never", lastMessageAt |-> 0, lastClearedAt |-> NoTime]]

\* wss.on('connection'): connections are accepted in the order 1, 2, ...
Connection(ws) ==
  /\ readyState[ws] = "NONE"
  /\ \A c \in Conns : c < ws => readyState[c] # "NONE"
  /\ readyState' = [readyState EXCEPT ![ws] = "OPEN"]
  /\ UNCHANGED <<userId, connectedClients, inbox, nextId, dropped, rejected, unparsed>>
  /\ UNCHANGED <<storeVars, sweepVars, clientVars>>

\* ws.on('message') with an auth frame
OnAuth(ws, data) ==
  /\ readyState[ws] = "OPEN"
  /\ IsAuth(data)
  /\ userId' = [userId EXCEPT ![ws] = data.userId]
  /\ connectedClients' = RegistryAfterMessage(ws, data)
  /\ UNCHANGED <<readyState, inbox, nextId, dropped, rejected, unparsed>>
  /\ UNCHANGED <<storeVars, sweepVars, clientVars>>

\* ws.on('message') with any other frame
OnRelay(ws, data) ==
  /\ readyState[ws] = "OPEN"
  /\ ~IsAuth(data)
  /\ nextId < MaxMsgs
  /\ nextId' = nextId + 1
  /\ connectedClients' = RegistryAfterMessage(ws, data)
  /\ IF CanRelay(ws, data) /\ TargetOpen(connectedClients[data.target])
       THEN inbox' = Send(inbox, connectedClients[data.target],
                          << [msg |-> messageToSend(ws, data), id |-> nextId + 1,
                              kind |-> "forward"] >>)
       ELSE inbox' = inbox
  /\ dropped' = IF data.target # None /\ Unreachable(data.target)
                  THEN dropped \cup {[id |-> nextId + 1, target |-> data.target,
                                      ws |-> ws]}
                  ELSE dropped
  /\ rejected' = IF userId[ws] = None
                   THEN rejected \cup {[id |-> nextId + 1, ws |-> ws]}
                   ELSE rejected
  /\ unparsed' = unparsed
  /\ UNCHANGED <<readyState, userId>>
  /\ UNCHANGED <<storeVars, sweepVars, clientVars>>

\* frames on which the handler throws inside its try block: JSON.parse
\* rejects "{", and reading data.userId of the parsed null throws
MalformedFrames == {"{", "null"}

\* the catch block: console.error('WebSocket message error:', error)
ReadyStateAfterError_Close(ws) == [readyState EXCEPT ![ws] = "CLOSED"]

ReadyStateAfterError(ws) == readyState

\* ws.on('message') with a frame that does not parse
OnMalformed(ws, raw) ==
  /\ readyState[ws] = "OPEN"
  /\ nextId < MaxMsgs
  /\ nextId' = nextId + 1
  /\ unparsed' = unparsed \cup {[id |-> nextId + 1, ws |-> ws]}
  /\ readyState' = ReadyStateAfterError(ws)
  /\ UNCHANGED <<userId, connectedClients, inbox, dropped, rejected>>
  /\ UNCHANGED <<storeVars, sweepVars, clientVars>>

\* ws.on('close'): the connection has left OPEN when the event is emitted
OnClose(ws) ==
  /\ readyState[ws] = "OPEN"
  /\ readyState' = [readyState EXCEPT ![ws] = "CLOSED"]
  /\ connectedClients' =
       IF userId[ws] # None
         THEN [connectedClients EXCEPT ![userId[ws]] = NoConn]
         ELSE connectedClients
  /\ UNCHANGED <<userId, inbox, nextId, dropped, rejected, unparsed>>
  /\ UNCHANGED <<storeVars, sweepVars, clientVars>>

\* number of registry entries that map to connection c
Entries(c) == Cardinality({u \in Users : connectedClients[u] = c})

Copies(n, frame) == [i \in 1..n |-> frame]

\* connectedClients.forEach((ws) => { if (ws.readyState === WebSocket.OPEN) ws.send(...) })
BroadcastCopies_NoStateCheck(c) == Entries(c)

BroadcastCopies(c) == IF readyState[c] = "OPEN" THEN Entries(c) ELSE 0

\* { type: 'broadcast', conversationId, ...message } with message.type = 'new-message'
BroadcastFrame(conversationId, d) ==
  [type |-> "new-message", userId |-> None, target |-> None, from |-> None,
   data |-> d, conversationId |-> conversationId]

\* broadcastMessage(conversationId, { type: 'new-message', data: message })
broadcastMessage(conversationId, d) ==
  /\ nextId < MaxMsgs
  /\ nextId' = nextId + 1
  /\ inbox' = [c \in Conns |->
                 inbox[c] \o Copies(BroadcastCopies(c),
                                    [msg |-> BroadcastFrame(conversationId, d),
                                     id |-> nextId + 1, kind |-> "broadcast"])]
  /\ UNCHANGED <<readyState, userId, connectedClients, dropped, rejected, unparsed>>
  /\ UNCHANGED <<storeVars, sweepVars, clientVars>>

Next ==
  \/ \E ws \in Conns : Connection(ws)
  \/ \E ws \in Conns, data \in AuthMessages : OnAuth(ws, data)
  \/ \E ws \in Conns, data \in RelayMessages : OnRelay(ws, data)
  \/ \E ws \in Conns : OnClose(ws)
  \/ \E conv \in ConvIds, d \in Payloads : broadcastMessage(conv, d)

Spec == Init /\ [][Next]_vars

\* the relay with frames that do not parse among the inbound ones
NextParse ==
  \/ Next
  \/ \E ws \in Conns, raw \in MalformedFrames : OnMalformed(ws, raw)

SpecParse == Init /\ [][NextParse]_vars

\* ---- storage layer: the message route and the retention sweep ----

\* two clients authenticated on open sockets, no conversation cleared yet,
\* each conversation with the retention policy chosen for it
InitStore ==
  /\ readyState = [c \in Conns |-> "OPEN"]
  /\ userId = [c \in Conns |-> IF c = 1 THEN "u1" ELSE "u2"]
  /\ connectedClients = [u \in Users |-> IF u = "u1" THEN 1 ELSE 2]
  /\ inbox = [c \in Conns |-> <<>>]
  /\ nextId = 0
  /\ dropped = {}
  /\ rejected = {}
  /\ unparsed = {}
  /\ StoreIdle
  /\ ClientIdle
  /\ \E p \in Policies :
       conversations = [c \in Conversations |->
         [autoClearAfter |-> IF c = "conv7" THEN p ELSE "24h",
          lastMessageAt |-> 0, lastClearedAt |-> NoTime]]

\* time passes between two statements
Tick(t) ==
  /\ t \in TimePoints
  /\ t > now
  /\ now' = t
  /\ quiet' = FALSE
  /\ UNCHANGED <<conversations, messages, msgSeq, addPc, response, sendFailed>>
  /\ UNCHANGED <<sweepPc, sweepTodo, clearing, sweeps, swept, clearCount, deleteCount>>
  /\ UNCHANGED <<relayVars, clientVars>>

\* POST /api/conversations/:id/messages, first statement of storage.addMessage:
\* db.insert(messages).values(...).returning()
AddMessageInsert(conv) ==
  /\ addPc = NoMsg
  /\ msgSeq < MaxStored
  /\ msgSeq' = msgSeq + 1
  /\ messages' = messages \cup
       {[id |-> msgSeq + 1, conversationId |-> conv, senderId |-> Sender]}
  /\ addPc' = [id |-> msgSeq + 1, conversationId |-> conv, senderId |-> Sender]
  /\ clearCount' = [clearCount EXCEPT ![conv] = 0]
  /\ deleteCount' = [deleteCount EXCEPT ![conv] = 0]
  /\ quiet' = FALSE
  /\ swept' = NoSweep
  /\ UNCHANGED <<now, conversations, response, sendFailed>>
  /\ UNCHANGED <<sweepPc, sweepTodo, clearing, sweeps>>
  /\ UNCHANGED <<relayVars, clientVars>>

\* Map iteration follows insertion order: InitStore registers u1 before u2
KeyOrder == <<"u1", "u2">>

\* the connections served by connectedClients.forEach when the send to
\* `thrower` throws: those of the entries visited before it
ServedBefore(thrower) ==
  IF thrower = NoConn
    THEN Conns
    ELSE {connectedClients[KeyOrder[i]] : i \in
            {j \in 1..Len(KeyOrder) :
               \A k \in 1..j : connectedClients[KeyOrder[k]] # thrower}}

\* res.json(message) after the broadcast, or the catch block's res.status(500)
StatusAfterBroadcast(thrower) == IF thrower = NoConn THEN "200" ELSE "500"

\* second statement of storage.addMessage, db.update(conversations).set({
\* lastMessageAt: new Date() }), then broadcastMessage and the response
AddMessageBump(thrower) ==
  /\ addPc # NoMsg
  /\ thrower # NoConn => BroadcastCopies(thrower) > 0
  /\ conversations' = BumpActivity(conversations, addPc.conversationId, now)
  /\ inbox' = [c \in Conns |->
                 IF c \in ServedBefore(thrower)
                   THEN inbox[c] \o Copies(BroadcastCopies(c),
                          [msg |-> BroadcastFrame(addPc.conversationId, addPc),
                           id |-> addPc.id, kind |-> "broadcast"])
                   ELSE inbox[c]]
  /\ response' = StatusAfterBroadcast(thrower)
  /\ sendFailed' = thrower
  /\ addPc' = NoMsg
  /\ UNCHANGED <<now, messages, msgSeq>>
  /\ UNCHANGED sweepVars
  /\ UNCHANGED <<readyState, userId, connectedClients, nextId, dropped, rejected, unparsed>>
  /\ UNCHANGED clientVars

\* the sweep reads the due list: storage.getConversationsToClean()
SweepList ==
  /\ sweepPc = "idle"
  /\ sweeps < MaxSweeps
  /\ sweeps' = sweeps + 1
  /\ sweepTodo' = getConversationsToClean(conversations, now)
  /\ sweepPc' = IF getConversationsToClean(conversations, now) = {} THEN "idle" ELSE "clearing"
  /\ swept' = [at |-> now,
               due |-> getConversationsToClean(conversations, now),
               again |-> IF quiet THEN swept.due ELSE {},
               before |-> messages,
               cleared |-> [c \in Conversations |-> conversations[c].lastClearedAt]]
  /\ quiet' = (getConversationsToClean(conversations, now) = {})
  /\ UNCHANGED <<clearing, clearCount, deleteCount>>
  /\ UNCHANGED storeVars
  /\ UNCHANGED <<relayVars, clientVars>>

\* storage.clearConversationMessages(c), first statement: the delete
ClearDelete(c) ==
  /\ sweepPc = "clearing"
  /\ clearing = NoConv
  /\ c \in sweepTodo
  /\ clearing' = c
  /\ sweepTodo' = sweepTodo \ {c}
  /\ messages' = DeleteMessages(messages, c)
  /\ deleteCount' = [deleteCount EXCEPT ![c] =
                       IF DeleteMessages(messages, c) # messages THEN @ + 1 ELSE @]
  /\ UNCHANGED <<now, conversations, msgSeq, addPc, response, sendFailed>>
  /\ UNCHANGED <<sweepPc, sweeps, swept, clearCount, quiet>>
  /\ UNCHANGED <<relayVars, clientVars>>

\* storage.clearConversationMessages(c), second statement: the update of
\* lastClearedAt; the sweep ends after the last conversation of its list
ClearStamp ==
  /\ clearing # NoConv
  /\ conversations' = StampCleared(conversations, clearing, now)
  /\ clearCount' = [clearCount EXCEPT ![clearing] = @ + 1]
  /\ clearing' = NoConv
  /\ sweepPc' = IF sweepTodo = {} THEN "idle" ELSE "clearing"
  /\ quiet' = (sweepTodo = {})
  /\ UNCHANGED <<now, messages, msgSeq, addPc, response, sendFailed>>
  /\ UNCHANGED <<sweepTodo, sweeps, swept, deleteCount>>
  /\ UNCHANGED <<relayVars, clientVars>>

\* no request and no sweep is between two of its statements
Idle == addPc = NoMsg /\ sweepPc = "idle"

\* requests and sweeps served one after the other
PostMessage(conv) == Idle /\ AddMessageInsert(conv)

Sweep == Idle /\ SweepList

NextStore ==
  \/ \E t \in TimePoints : Tick(t)
  \/ \E conv \in Conversations : PostMessage(conv)
  \/ AddMessageBump(NoConn)
  \/ Sweep
  \/ \E c \in Conversations : ClearDelete(c)
  \/ ClearStamp

SpecStore == InitStore /\ [][NextStore]_vars

\* the message route alone, with a send that may throw during the broadcast
NextPost ==
  \/ \E t \in TimePoints : Tick(t)
  \/ \E conv \in Conversations : PostMessage(conv)
  \/ \E thrower \in Conns \cup {NoConn} : AddMessageBump(thrower)

SpecPost == InitStore /\ [][NextPost]_vars

\* a request's statements interleave with a sweep's at every await
NextRace ==
  \/ \E t \in TimePoints : Tick(t)
  \/ \E conv \in Conversations : AddMessageInsert(conv)
  \/ AddMessageBump(NoConn)
  \/ SweepList
  \/ \E c \in Conversations : ClearDelete(c)
  \/ ClearStamp

SpecRace == InitStore /\ [][NextRace]_vars

TypeOK ==
  /\ readyState \in [Conns -> {"NONE", "OPEN", "CLOSED"}]
  /\ userId \in [Conns -> {None} \cup Users]
  /\ connectedClients \in [Users -> {NoConn} \cup Conns]
  /\ nextId \in 0..MaxMsgs
  /\ \A d \in dropped : d.id \in 1..MaxMsgs /\ d.target \in Users /\ d.ws \in Conns
  /\ \A r \in rejected : r.id \in 1..MaxMsgs /\ r.ws \in Conns

\* ------------------------------------------------------------- properties

\* frames a step appended to connection c
NewFrames(c) == SubSeq(inbox'[c], Len(inbox[c]) + 1, Len(inbox'[c]))

ForwardedFrames(c) == {i \in 1..Len(inbox[c]) : inbox[c][i].kind = "forward"}

\* C1: handling one signaling message from a bound sender S whose target T
\* has an open registered connection appends exactly one frame, to T's
\* registered connection and to no other, with from = S and with type, data
\* and conversationId as sent.
C1_ExactlyOneDelivery ==
  [][\A ws \in Conns :
       (nextId' = nextId + 1 /\ userId[ws] # None)
       => \A data \in RelayMessages :
            ( /\ data.type \in SignalingKinds
              /\ data.target # None
              /\ ~Unreachable(data.target)
              /\ OnRelay(ws, data) )
            => LET t == connectedClients[data.target] IN
               /\ Len(NewFrames(t)) = 1
               /\ SubSeq(inbox'[t], 1, Len(inbox[t])) = inbox[t]
               /\ NewFrames(t)[1].msg.from = userId[ws]
               /\ NewFrames(t)[1].msg.type = data.type
               /\ NewFrames(t)[1].msg.data = data.data
               /\ NewFrames(t)[1].msg.conversationId = data.conversationId
               /\ \A c \in Conns \ {t} : inbox'[c] = inbox[c]]_vars

\* a signaling frame lies in one inbox; the other connection, bound to the
\* sender's identity, is open and has received nothing
C1_Witness ==
  \E c \in Conns : \E i \in ForwardedFrames(c) :
    /\ inbox[c][i].msg.type \in SignalingKinds
    /\ inbox[c][i].msg.from \in Users
    /\ inbox[c][i].msg.data \in Payloads
    /\ inbox[c][i].msg.conversationId \in ConvIds
    /\ \E o \in Conns \ {c} :
         /\ readyState[o] = "OPEN"
         /\ userId[o] = inbox[c][i].msg.from
         /\ inbox[o] = <<>>

\* C2: last-write-wins. A registration under X always installs the
\* registering connection, and from then on the entry of X keeps resolving to
\* that connection: it changes only by a later registration under X or by the
\* close of the registered connection itself.
C2_LastWriteWins ==
  [][ /\ \A ws \in Conns, data \in AuthMessages :
           OnAuth(ws, data) => connectedClients'[data.userId] = ws
      /\ \A x \in Users :
           LET b == connectedClients[x] IN
           (b # NoConn /\ connectedClients'[x] # b)
             => \/ OnClose(b)
                \/ \E ws \in Conns, data \in AuthMessages :
                     data.userId = x /\ OnAuth(ws, data) ]_vars

\* C3: every forwarded frame carries from = the identity bound to the
\* originating connection when it was handled, and the from value the sender
\* supplied has no influence: the same step results whatever it was.
C3_FromIsSenderIdentity ==
  [][\A c \in Conns :
       (inbox'[c] # inbox[c])
       => \A ws \in Conns, data \in RelayMessages :
            ( /\ readyState[ws] = "OPEN"
              /\ data.from = None
              /\ data.target = NewFrames(c)[1].msg.target
              /\ data.type = NewFrames(c)[1].msg.type
              /\ \E f \in {None} \cup Users : OnRelay(ws, [data EXCEPT !.from = f]) )
            => /\ \A i \in 1..Len(NewFrames(c)) :
                    NewFrames(c)[i].msg.from = userId[ws]
               /\ \A f \in {None} \cup Users :
                    OnRelay(ws, [data EXCEPT !.from = f])]_vars

\* a connection bound to the target holds a frame tagged with another identity
C3_Witness ==
  \E c \in Conns : \E i \in ForwardedFrames(c) :
    /\ inbox[c][i].msg.from \in Users
    /\ inbox[c][i].msg.from # inbox[c][i].msg.target
    /\ userId[c] = inbox[c][i].msg.target

\* C4: a message handled while its target was not registered, or registered
\* with a connection that was not open, is in no connection's inbox, at that
\* time or at any later time.
C4_NoLateDelivery ==
  \A c \in Conns : \A i \in ForwardedFrames(c) :
    \A d \in dropped : inbox[c][i].id # d.id

\* the target of a bound sender's dropped message has registered since and
\* has received nothing
C4_Witness ==
  \E d \in dropped :
    /\ \A r \in rejected : r.id # d.id
    /\ connectedClients[d.target] # NoConn
    /\ readyState[connectedClients[d.target]] = "OPEN"
    /\ inbox[connectedClients[d.target]] = <<>>

\* C5: handling a message of a bound sender whose target is unreachable
\* leaves the sender's connection open and the registry and the bound
\* identities as they were.
C5_SenderSurvivesUnreachable ==
  [][\A d \in dropped' \ dropped :
       userId[d.ws] # None
       => /\ readyState'[d.ws] = "OPEN"
          /\ userId' = userId
          /\ connectedClients' = connectedClients]_vars

\* the sender of a dropped message was bound, and is still open and registered
C5_Witness ==
  \E d \in dropped :
    /\ \A r \in rejected : r.id # d.id
    /\ userId[d.ws] # None
    /\ connectedClients[userId[d.ws]] = d.ws
    /\ readyState[d.ws] = "OPEN"

\* C6: a non-auth message from a connection with no bound identity appends
\* no frame to any connection and leaves every connection, the sender's
\* included, in the state it was in.
C6_UnauthenticatedNotForwarded ==
  [][\A r \in rejected' \ rejected :
       /\ inbox' = inbox
       /\ readyState' = readyState
       /\ readyState'[r.ws] = "OPEN"]_vars

\* the message had a reachable target, and its sender authenticated afterwards
C6_Witness ==
  \E r \in rejected :
    /\ \A d \in dropped : d.id # r.id
    /\ readyState[r.ws] = "OPEN"
    /\ userId[r.ws] # None
    /\ connectedClients[userId[r.ws]] = r.ws

\* C7: no frame forwarded by the relay has a type outside the seven
\* signaling kinds.
C7_OnlySignalingKindsForwarded ==
  \A c \in Conns : \A i \in ForwardedFrames(c) :
    inbox[c][i].msg.type \in SignalingKinds

\* C8: once the close event of a connection has been handled, no registry
\* entry refers to that connection.
C8_ClosedNotRegistered ==
  \A c \in Conns :
    readyState[c] = "CLOSED" => \A u \in Users : connectedClients[u] # c

\* C9: no step appends a frame, forwarded or broadcast, to a connection
\* whose close event has been handled.
C9_NoDeliveryAfterClose ==
  [][\A c \in Conns : readyState[c] = "CLOSED" => inbox'[c] = inbox[c]]_vars

\* a closed connection is still in the registry, a bound sender's message to
\* it was handled, and so was a broadcast
C9_Witness ==
  \E c \in Conns : \E d \in dropped :
    /\ readyState[c] = "CLOSED"
    /\ connectedClients[d.target] = c
    /\ \A r \in rejected : r.id # d.id
    /\ inbox[c] = <<>>
    /\ \E o \in Conns : \E i \in 1..Len(inbox[o]) :
         inbox[o][i].kind = "broadcast" /\ inbox[o][i].id > d.id

\* C10: in every inbox, the forwarded frames of one sender to one target
\* appear in the order in which the relay handled them.
C10_OrderPreserved ==
  \A c \in Conns : \A i, j \in ForwardedFrames(c) :
    ( /\ i < j
      /\ inbox[c][i].msg.from = inbox[c][j].msg.from
      /\ inbox[c][i].msg.target = inbox[c][j].msg.target )
    => inbox[c][i].id < inbox[c][j].id

C10_Witness ==
  \E c \in Conns : \E i, j \in ForwardedFrames(c) :
    /\ i < j
    /\ inbox[c][i].msg.from = inbox[c][j].msg.from
    /\ inbox[c][i].msg.target = inbox[c][j].msg.target

\* ---- broadcast of a stored message ----

\* C11: a broadcast appends exactly one frame, carrying the conversation id,
\* to the inbox of every open connection the registry holds.
C11_BroadcastExactlyOnce ==
  [][\A conv \in ConvIds, d \in Payloads :
       broadcastMessage(conv, d) =>
         \A c \in Conns :
           (Entries(c) > 0 /\ readyState[c] = "OPEN") =>
             /\ Len(NewFrames(c)) = 1
             /\ NewFrames(c)[1].msg.conversationId = conv]_vars

\* C12: when a send throws during the broadcast of a stored message, the
\* request is still answered 200 and every other open registered connection
\* has the message's frame.
C12_SendFailureIsolated ==
  (addPc = NoMsg /\ sendFailed # NoConn) =>
    /\ response = "200"
    /\ \A c \in Conns \ {sendFailed} :
         BroadcastCopies(c) > 0 =>
           \E i \in 1..Len(inbox[c]) : inbox[c][i].id = msgSeq

\* C13: the step that handles a frame that does not parse forwards nothing,
\* leaves the registry as it was, and leaves the sending connection open
\* with the identity it had.
C13_MalformedDropped ==
  [][\A u \in unparsed' \ unparsed :
       /\ inbox' = inbox
       /\ connectedClients' = connectedClients
       /\ readyState'[u.ws] = "OPEN"
       /\ userId'[u.ws] = userId[u.ws]]_vars

\* a registered connection sent a frame that did not parse and, still open
\* and registered, had a later message forwarded under its identity
C13_Witness ==
  \E u \in unparsed :
    /\ readyState[u.ws] = "OPEN"
    /\ userId[u.ws] # None
    /\ connectedClients[userId[u.ws]] = u.ws
    /\ \E c \in Conns \ {u.ws} : \E i \in 1..Len(inbox[c]) :
         /\ inbox[c][i].kind = "forward"
         /\ inbox[c][i].id > u.id
         /\ inbox[c][i].msg.from = userId[u.ws]

\* ---- retention ----

\* the thresholds of the three policies that expire
ThresholdOf(policy) ==
  CASE policy = "24h" -> OneDay
    [] policy = "1week" -> OneWeek
    [] policy = "30days" -> ThirtyDays

Elapsed(c, t) == t - conversations[c].lastMessageAt

StoreTypeOK ==
  /\ now \in TimePoints
  /\ conversations \in [Conversations ->
       [autoClearAfter : Policies, lastMessageAt : TimePoints,
        lastClearedAt : TimePoints \cup {NoTime}]]
  /\ \A m \in messages : m.id \in 1..msgSeq /\ m.conversationId \in Conversations
  /\ msgSeq \in 0..MaxStored
  /\ sweeps \in 0..MaxSweeps
  /\ response \in {"none", "200", "500"}
  /\ sendFailed \in Conns \cup {NoConn}
  /\ sweepPc \in {"idle", "clearing"}
  /\ sweepTodo \subseteq Conversations
  /\ clearing \in Conversations \cup {NoConv}
  /\ quiet \in BOOLEAN

\* C14 as stated: a conversation is due at t exactly when its policy expires
\* and the time since its last activity is at least the policy's threshold.
C14_DueAtThreshold ==
  \A c \in Conversations, t \in TimePoints :
    IsDue(conversations[c], t) <=>
      /\ conversations[c].autoClearAfter # "never"
      /\ Elapsed(c, t) >= ThresholdOf(conversations[c].autoClearAfter)

\* C14: a conversation is due at t exactly when its policy expires and the
\* time since its last activity is strictly greater than the policy's
\* threshold; at exactly the threshold it is not due, and 'never' is never due.
C14_DueBeyondThreshold ==
  \A c \in Conversations, t \in TimePoints :
    IsDue(conversations[c], t) <=>
      /\ conversations[c].autoClearAfter # "never"
      /\ Elapsed(c, t) > ThresholdOf(conversations[c].autoClearAfter)

\* a sweep read the due list at the instant a conversation reached its
\* threshold exactly, and left it out; another one was past its threshold
C14_Witness ==
  /\ sweepPc = "idle"
  /\ swept.at = now
  /\ \E c \in Conversations \ swept.due :
       /\ conversations[c].autoClearAfter # "never"
       /\ Elapsed(c, now) = ThresholdOf(conversations[c].autoClearAfter)
  /\ swept.due # {}

\* the last sweep has run to completion and no request is in flight
SweepDone == sweepPc = "idle" /\ swept # NoSweep /\ addPc = NoMsg

\* C15 as stated: after a sweep, every conversation that was due has no
\* message and lastClearedAt equal to the sweep's time; the others keep
\* their messages and lastClearedAt.
C15_SweepStampsNow ==
  SweepDone =>
    \A c \in Conversations :
      IF c \in swept.due
        THEN /\ MessagesOf(messages, c) = {}
             /\ conversations[c].lastClearedAt = swept.at
        ELSE /\ MessagesOf(messages, c) = MessagesOf(swept.before, c)
             /\ conversations[c].lastClearedAt = swept.cleared[c]

\* C15: after a sweep, every conversation that was due has no message and
\* a lastClearedAt read from the clock when its clear ran, not earlier than
\* the sweep's time; the others keep their messages and lastClearedAt.
C15_SweepClearsDue ==
  SweepDone =>
    \A c \in Conversations :
      IF c \in swept.due
        THEN /\ MessagesOf(messages, c) = {}
             /\ conversations[c].lastClearedAt >= swept.at
             /\ conversations[c].lastClearedAt <= now
        ELSE /\ MessagesOf(messages, c) = MessagesOf(swept.before, c)
             /\ conversations[c].lastClearedAt = swept.cleared[c]

\* a sweep cleared a conversation that had messages, after the clock moved
\* on, and left alone one with messages that was not due
C15_Witness ==
  /\ SweepDone
  /\ \E c \in swept.due :
       /\ MessagesOf(swept.before, c) # {}
       /\ conversations[c].lastClearedAt > swept.at
  /\ \E c \in Conversations \ swept.due : MessagesOf(messages, c) # {}

\* C16: in a sweep that starts right after another one ended, the delete of
\* a conversation the first one cleared removes no message.
C16_SecondSweepDeletesNothing ==
  [][\A c \in swept.again :
       (clearing = NoConv /\ clearing' = c) => messages' = messages]_vars

\* two sweeps in a row: the first deleted the messages of a conversation,
\* the second cleared it again
C16_Witness ==
  /\ SweepDone
  /\ \E c \in swept.again : deleteCount[c] = 1 /\ clearCount[c] = 2

C18_Serializable ==
  (addPc = NoMsg /\ clearing = NoConv) =>
    \A c \in Conversations :
      conversations[c].lastClearedAt # NoTime =>
        IF MessagesOf(messages, c) = {}
          THEN conversations[c].lastMessageAt <= conversations[c].lastClearedAt
          ELSE conversations[c].lastClearedAt <= conversations[c].lastMessageAt

\* C19: both statements of a clear leave every conversation's lastMessageAt
\* and autoClearAfter as they were, and change nothing of the other
\* conversations.
C19_ClearFrame ==
  [][\A c \in Conversations :
       (clearing # clearing' /\ (clearing = c \/ clearing' = c)) =>
         \A k \in Conversations :
           /\ conversations'[k].lastMessageAt = conversations[k].lastMessageAt
           /\ conversations'[k].autoClearAfter = conversations[k].autoClearAfter
           /\ k # c => /\ conversations'[k] = conversations[k]
                       /\ MessagesOf(messages', k) = MessagesOf(messages, k)]_vars

\* a conversation whose activity was bumped by a message was cleared: its
\* messages are gone, lastClearedAt is written, lastMessageAt is the bump's
C19_Witness ==
  \E c \in Conversations :
    /\ deleteCount[c] = 1
    /\ clearing = NoConv
    /\ conversations[c].lastMessageAt > 0
    /\ conversations[c].lastClearedAt > conversations[c].lastMessageAt
    /\ MessagesOf(messages, c) = {}

\* C20: whatever lastClearedAt a conversation has, its classification now
\* is the one of its policy and lastMessageAt.
C20_DueIgnoresLastCleared ==
  \A c \in Conversations, x \in TimePoints \cup {NoTime} :
    IsDue([conversations[c] EXCEPT !.lastClearedAt = x], now) = IsDue(conversations[c], now)

\* a conversation cleared after its last activity is listed again by the
\* next sweep
C20_Witness ==
  \E c \in swept.due :
    /\ clearCount[c] >= 1
    /\ swept.cleared[c] # NoTime
    /\ swept.cleared[c] > conversations[c].lastMessageAt
    /\ IsDue(conversations[c], now)

\* ---- registry under replacement and re-authentication ----

\* C24: the close of a connection whose identifier is registered to another
\* connection leaves that entry in place.
C24_StaleCloseKeepsEntry ==
  [][\A a \in Conns :
       ( /\ readyState[a] = "OPEN"
         /\ readyState'[a] = "CLOSED"
         /\ userId[a] # None
         /\ connectedClients[userId[a]] # NoConn
         /\ connectedClients[userId[a]] # a )
       => connectedClients'[userId[a]] = connectedClients[userId[a]]]_vars

\* C25: every registry entry's key is the identity bound to the connection
\* it maps to.
C25_KeyIsBoundIdentity ==
  \A u \in Users :
    connectedClients[u] # NoConn => userId[connectedClients[u]] = u

\* ---- retention after a clear ----

\* C21: the store of a message in a conversation that was cleared sets its
\* lastMessageAt to the time of the store, so it is not due at any time up
\* to the threshold after it; and a sweep deletes messages only of
\* conversations that were due when it read its list.
C21_Reactivation ==
  [][ /\ (addPc # NoMsg /\ addPc' = NoMsg
            /\ conversations[addPc.conversationId].lastClearedAt # NoTime)
         => LET c == addPc.conversationId
                p == conversations[c].autoClearAfter
            IN /\ conversations'[c].lastMessageAt = now
               /\ \A t \in TimePoints :
                    (t >= now /\ (p = "never" \/ t - now <= ThresholdOf(p)))
                      => ~IsDue(conversations'[c], t)
      /\ \A m \in messages \ messages' :
           IsDue(conversations[m.conversationId], swept.at) ]_vars

\* a conversation was cleared, then got a message, and the sweep that ran
\* after it, before the threshold had elapsed again, left the message
C21_Witness ==
  /\ SweepDone
  /\ \E c \in Conversations \ swept.due :
       /\ conversations[c].autoClearAfter # "never"
       /\ conversations[c].lastClearedAt # NoTime
       /\ conversations[c].lastMessageAt >= conversations[c].lastClearedAt
       /\ swept.at >= conversations[c].lastMessageAt
       /\ MessagesOf(messages, c) # {}

\* C26: every message a step deletes belongs to a conversation that is due
\* at the moment of the delete.
C26_DeletesOnlyDue ==
  [][\A m \in messages \ messages' :
       IsDue(conversations[m.conversationId], now)]_vars

\* ---- the chat page and its call modals ----

\* const targetUserId = currentConversation?.otherUser?.id
targetUserId(m) == IF m.loaded THEN Peer ELSE None

\* useQuery(["/api/conversations"]) gets its data
ConversationsLoaded ==
  /\ ~modal.loaded
  /\ modal' = [modal EXCEPT !.loaded = TRUE]
  /\ UNCHANGED <<relayVars, storeVars, sweepVars, hook, pairs, clearSettings>>

\* setIsIncomingCall(incoming); setIs...ModalOpen(true); a modal that goes
\* from closed to open begins a new opening
OpenModal(m, k, incoming) ==
  [m EXCEPT !.isOpen = @ \cup {k},
            !.isIncomingCall = incoming,
            !.openedIncoming = IF k \in m.isOpen THEN @
                               ELSE IF incoming THEN @ \cup {k} ELSE @ \ {k},
            !.started = IF k \in m.isOpen THEN @ ELSE @ \ {k},
            !.repeated = IF k \in m.isOpen THEN @ ELSE @ \ {k}]

\* the effect on [isOpen] of a modal that is closed
Rearm(ref, k) == ref \ {k}

\* setIs...ModalOpen(false) and the effect that follows it
CloseModal(m, k) ==
  [m EXCEPT !.isOpen = @ \ {k},
            !.callInitiatedRef = IF k \in m.isOpen THEN Rearm(@, k) ELSE @]

\* the call buttons of the chat area, which the overlay of an open dialog covers
onCall(k) ==
  /\ modal.isOpen = {}
  /\ modal.incomingCall = NoCall
  /\ modal' = OpenModal(modal, k, FALSE)
  /\ UNCHANGED <<relayVars, storeVars, sweepVars, hook, pairs, clearSettings>>

\* lastMessage.type === 'call-start'
ReceiveCallStart(k) ==
  /\ modal' = [modal EXCEPT !.incomingCall = k]
  /\ UNCHANGED <<relayVars, storeVars, sweepVars, hook, pairs, clearSettings>>

\* lastMessage.type === 'call-end'
ReceiveCallEnd ==
  /\ modal' = [CloseModal(CloseModal(modal, "voice"), "video")
                 EXCEPT !.incomingCall = NoCall]
  /\ UNCHANGED <<relayVars, storeVars, sweepVars, hook, pairs, clearSettings>>

\* IncomingCallModal onAccept
onAccept ==
  /\ modal.incomingCall # NoCall
  /\ modal' = [OpenModal(modal, modal.incomingCall, TRUE)
                 EXCEPT !.incomingCall = NoCall]
  /\ UNCHANGED <<relayVars, storeVars, sweepVars, hook, pairs, clearSettings>>

\* IncomingCallModal onReject
onReject ==
  /\ modal.incomingCall # NoCall
  /\ modal' = [modal EXCEPT !.incomingCall = NoCall]
  /\ UNCHANGED <<relayVars, storeVars, sweepVars, hook, pairs, clearSettings>>

\* callInitiatedRef.current = true
Initiated(ref, k) == ref \cup {k}

\* sendWebSocketMessage({ type: 'call-start', target: targetUserId, ... })
CallStart(m, k) ==
  [m EXCEPT !.lastSent = [type |-> "call-start", target |-> targetUserId(m),
                          callType |-> k],
            !.repeated = IF k \in m.started THEN @ \cup {k} ELSE @,
            !.started = @ \cup {k}]

\* initiateCall of the modal of kind k, bound to its start button
initiateCall(k) ==
  /\ k \in modal.isOpen
  /\ modal' =
       IF k \notin modal.callInitiatedRef /\ targetUserId(modal) # None
         THEN LET m == [modal EXCEPT !.callInitiatedRef = Initiated(@, k)]
              IN IF ~modal.isIncomingCall THEN CallStart(m, k) ELSE m
         ELSE modal
  /\ UNCHANGED <<relayVars, storeVars, sweepVars, hook, pairs, clearSettings>>

\* target of the call-end: targetUserId in CallModal,
\* conversationId.toString() in VideoCallModal
EndTarget(m, k) ==
  IF k = "voice" THEN targetUserId(m) ELSE ToString(selectedConversationId)

\* if (conversationId && targetUserId) in CallModal, if (conversationId) in
\* VideoCallModal
SendsEnd(m, k) == k = "video" \/ targetUserId(m) # None

\* the onClose the page passes to both modals
onCloseModal(m, k) == [CloseModal(m, k) EXCEPT !.isIncomingCall = FALSE]

\* handleEndCall of the modal of kind k
handleEndCall(k) ==
  /\ k \in modal.isOpen
  /\ modal' =
       LET m == IF SendsEnd(modal, k)
                  THEN [modal EXCEPT !.lastSent =
                          [type |-> "call-end", target |-> EndTarget(modal, k),
                           callType |-> k]]
                  ELSE modal
       IN onCloseModal(m, k)
  /\ UNCHANGED <<relayVars, storeVars, sweepVars, hook, pairs, clearSettings>>

\* Dialog onOpenChange={onClose}, and the onClose timer of a disconnected call
onClose(k) ==
  /\ k \in modal.isOpen
  /\ modal' = onCloseModal(modal, k)
  /\ UNCHANGED <<relayVars, storeVars, sweepVars, hook, pairs, clearSettings>>

NextModal ==
  \/ ConversationsLoaded
  \/ \E k \in Kinds : onCall(k)
  \/ \E k \in Kinds : ReceiveCallStart(k)
  \/ ReceiveCallEnd
  \/ onAccept
  \/ onReject
  \/ \E k \in Kinds : initiateCall(k)
  \/ \E k \in Kinds : handleEndCall(k)
  \/ \E k \in Kinds : onClose(k)

SpecModal == Init /\ [][NextModal]_vars

\* C29: every call-end a modal sends is addressed to the other participant's
\* user id.
C29_EndTargetsPeer ==
  modal.lastSent.type = "call-end" => modal.lastSent.target = Peer

\* C30: in one opening of a modal at most one call-start is sent, none in an
\* opening for an incoming call, and the guard is re-armed only by a step
\* that leaves the modal closed.
C30_OneStartPerOpening ==
  [][\A k \in Kinds :
       /\ k \notin modal'.repeated
       /\ (k \in modal'.isOpen /\ k \in modal'.openedIncoming)
            => k \notin modal'.started
       /\ (k \in modal.callInitiatedRef /\ k \notin modal'.callInitiatedRef)
            => k \notin modal'.isOpen]_vars

\* ---- useWebSocket: one hook instance and the sockets it creates ----

\* sockets whose close event is still to come
Live(h) == {s \in DOMAIN h.sock : h.sock[s] \in {"CONNECTING", "OPEN", "CLOSING"}}

\* a new socket can be created within the bounds
CanConnect(h) == Len(h.sock) < MaxSockets /\ Cardinality(Live(h)) < MaxLive

\* wsRef.current = new WebSocket(wsUrl)
connect(h) ==
  [h EXCEPT !.sock = Append(@, "CONNECTING"),
            !.code = Append(@, 0),
            !.wsRef = Len(h.sock) + 1]

\* ws.close(1000, ...): the close event of an open socket carries the code
\* given, a socket closed before it opened fails with an abnormal closure
close(h, s) ==
  IF h.sock[s] = "OPEN"
    THEN [h EXCEPT !.sock[s] = "CLOSING", !.code[s] = NormalClosure]
    ELSE IF h.sock[s] = "CONNECTING"
      THEN [h EXCEPT !.sock[s] = "CLOSING", !.code[s] = 1006]
      ELSE h

\* the effect's cleanup: clearTimeout(reconnectTimeoutRef.current) and
\* wsRef.current.close(1000, 'Component unmounting') if wsRef.current is set
cleanup(h) ==
  LET c == [h EXCEPT !.timerRef = FALSE]
  IN IF c.wsRef # 0 THEN close(c, c.wsRef) ELSE c

\* user?.id changes: the cleanup of the old effect, then the new effect
SetUser(u) ==
  /\ u # hook.user
  /\ u # None => CanConnect(hook)
  /\ hook' = LET c == [cleanup(hook) EXCEPT !.user = u]
             IN IF u # None THEN connect(c) ELSE c
  /\ UNCHANGED <<relayVars, storeVars, sweepVars, modal, pairs, clearSettings>>

\* ws.onopen
OnOpen(s) ==
  /\ s \in DOMAIN hook.sock
  /\ hook.sock[s] = "CONNECTING"
  /\ hook' = [hook EXCEPT !.sock[s] = "OPEN",
                          !.isConnected = TRUE,
                          !.reconnectAttempts = 0]
  /\ UNCHANGED <<relayVars, storeVars, sweepVars, modal, pairs, clearSettings>>

\* event.code !== 1000 && reconnectAttemptsRef.current < maxReconnectAttempts
Reconnects(h, c) ==
  c # NormalClosure /\ h.reconnectAttempts < maxReconnectAttempts

\* reconnectTimeoutRef.current = setTimeout(...): the timer the ref held
\* before, if it is still pending, stays pending
Schedule(h) ==
  [h EXCEPT !.timerRef = TRUE,
            !.timersOther = IF h.timerRef THEN @ + 1 ELSE @]

\* event.code: the code of the close() that closed the socket, an abnormal
\* closure when the connection failed or the server went away (the server
\* closes no socket itself)
EventCode(h, s) == IF h.sock[s] = "CLOSING" THEN h.code[s] ELSE 1006

\* ws.onclose
OnClose_Hook(s) ==
  /\ s \in Live(hook)
  /\ hook' = LET c == EventCode(hook, s)
                 h == [hook EXCEPT !.sock[s] = "CLOSED",
                                   !.code[s] = 0,
                                   !.isConnected = FALSE,
                                   !.wsRef = 0]
             IN IF Reconnects(hook, c) THEN Schedule(h) ELSE h
  /\ UNCHANGED <<relayVars, storeVars, sweepVars, modal, pairs, clearSettings>>

\* a reconnect timer fires: reconnectAttemptsRef.current++; connect()
TimerFire(held) ==
  /\ IF held THEN hook.timerRef ELSE hook.timersOther > 0
  /\ CanConnect(hook)
  /\ hook' = LET h == IF held THEN [hook EXCEPT !.timerRef = FALSE]
                      ELSE [hook EXCEPT !.timersOther = @ - 1]
             IN connect([h EXCEPT !.reconnectAttempts = @ + 1])
  /\ UNCHANGED <<relayVars, storeVars, sweepVars, modal, pairs, clearSettings>>

\* sendMessage
sendMessage ==
  /\ hook' = [hook EXCEPT !.sendResult =
                IF hook.wsRef # 0 /\ hook.sock[hook.wsRef] = "OPEN"
                  THEN "sent" ELSE "error"]
  /\ UNCHANGED <<relayVars, storeVars, sweepVars, modal, pairs, clearSettings>>

NextHook ==
  \/ \E u \in Accounts \cup {None} : SetUser(u)
  \/ \E s \in Sockets : OnOpen(s)
  \/ \E s \in Sockets : OnClose_Hook(s)
  \/ \E held \in BOOLEAN : TimerFire(held)
  \/ sendMessage

SpecHook == Init /\ [][NextHook]_vars

\* reconnect timers pending
Pending(h) == h.timersOther + IF h.timerRef THEN 1 ELSE 0

\* C27: while the socket created last is open, wsRef refers to it and the
\* connected flag is set, and a sendMessage transmits.
C27_NewestSocketDescribed ==
  [][(hook'.sock # <<>> /\ hook'.sock[Len(hook'.sock)] = "OPEN")
       => /\ hook'.wsRef = Len(hook'.sock)
          /\ hook'.isConnected
          /\ hook'.sendResult # hook.sendResult => hook'.sendResult = "sent"]_vars

\* C28: the attempt counter never exceeds maxReconnectAttempts, an open
\* resets it to 0, and a reconnect is scheduled only by a close whose code is
\* not 1000 with fewer than maxReconnectAttempts attempts counted.
C28_BoundedReconnect ==
  [][/\ hook'.reconnectAttempts <= maxReconnectAttempts
     /\ (\E s \in DOMAIN hook.sock :
           hook.sock[s] = "CONNECTING" /\ hook'.sock[s] = "OPEN")
          => hook'.reconnectAttempts = 0
     /\ Pending(hook') > Pending(hook)
          => /\ \E s \in DOMAIN hook.sock :
                  /\ hook.sock[s] # "CLOSED"
                  /\ hook'.sock[s] = "CLOSED"
                  /\ EventCode(hook, s) # NormalClosure
             /\ hook.reconnectAttempts < maxReconnectAttempts]_vars

\* ---- getOrCreateConversation ----

\* or(and(participant1Id = a, participant2Id = b),
\*    and(participant1Id = b, participant2Id = a))
Matches(row, a, b) ==
  \/ row.participant1Id = a /\ row.participant2Id = b
  \/ row.participant1Id = b /\ row.participant2Id = a

\* the select of getOrCreateConversation(a, b) for request r: an existing
\* row is returned, otherwise the call goes on to its insert
GetOrCreateSelect(r, a, b) ==
  /\ pairs.inFlight[r] = NoPair
  /\ LET existing == {row \in pairs.table : Matches(row, a, b)}
     IN IF existing # {}
          THEN \E row \in existing :
                 pairs' = [pairs EXCEPT !.returned[r] = row.id]
          ELSE pairs' = [pairs EXCEPT !.inFlight[r] = <<a, b>>]
  /\ UNCHANGED <<relayVars, storeVars, sweepVars, modal, hook, clearSettings>>

\* db.insert(conversations).values({ participant1Id, participant2Id })
\* .returning()
GetOrCreateInsert(r) ==
  /\ pairs.inFlight[r] # NoPair
  /\ pairs.serial < MaxRows
  /\ LET id == pairs.serial + 1
     IN pairs' = [pairs EXCEPT
          !.serial = id,
          !.table = @ \cup {[id |-> id,
                             participant1Id |-> pairs.inFlight[r][1],
                             participant2Id |-> pairs.inFlight[r][2]]},
          !.inFlight[r] = NoPair,
          !.returned[r] = id]
  /\ UNCHANGED <<relayVars, storeVars, sweepVars, modal, hook, clearSettings>>

NextPairs ==
  \/ \E r \in Requests : \E a \in Users : \E b \in Users : GetOrCreateSelect(r, a, b)
  \/ \E r \in Requests : GetOrCreateInsert(r)

SpecPairs == Init /\ [][NextPairs]_vars

\* C22: the conversations table never holds two records for the same
\* unordered pair of participants.
C22_OneRecordPerPair ==
  \A x \in pairs.table : \A y \in pairs.table :
    Matches(x, y.participant1Id, y.participant2Id) => x.id = y.id

\* ---- PUT /api/conversations/:id/clear-settings ----

\* values a request body can carry for autoClearAfter
RequestedPolicies == Policies \cup {"2h", None}

\* ids a request can name: the conversations and one that does not exist
RequestedIds == Conversations \cup {"conv9"}

ValidPolicy_Any(v) == TRUE

\* ['24h', '1week', '30days', 'never'].includes(autoClearAfter)
ValidPolicy(v) == v \in Policies

\* db.update(conversations).set({ autoClearAfter }).where(eq(id, ...))
updateConversationClearSettings(rows, id, v) ==
  [rows EXCEPT ![id].autoClearAfter = v]

\* the route: 400 for an invalid value, 404 for an unknown conversation
PutClearSettings(id, v) ==
  /\ IF ~ValidPolicy(v)
       THEN /\ clearSettings' = [id |-> id, autoClearAfter |-> v, status |-> 400]
            /\ UNCHANGED conversations
       ELSE IF id \notin Conversations
         THEN /\ clearSettings' = [id |-> id, autoClearAfter |-> v, status |-> 404]
              /\ UNCHANGED conversations
         ELSE /\ clearSettings' = [id |-> id, autoClearAfter |-> v, status |-> 200]
              /\ conversations' = updateConversationClearSettings(conversations, id, v)
  /\ UNCHANGED <<now, messages, msgSeq, addPc, response, sendFailed>>
  /\ UNCHANGED <<relayVars, sweepVars, modal, hook, pairs>>

NextSettings ==
  \E id \in RequestedIds : \E v \in RequestedPolicies : PutClearSettings(id, v)

SpecSettings == InitStore /\ [][NextSettings]_vars

\* C23: every conversation's policy is one of the four values before and
\* after every step, and a clear-settings request with any other value is
\* answered 400 and leaves the conversations as they were.
C23_PolicyStaysValid ==
  [][/\ \A c \in Conversations :
          /\ conversations[c].autoClearAfter \in Policies
          /\ conversations'[c].autoClearAfter \in Policies
     /\ (clearSettings' # clearSettings
           /\ clearSettings'.autoClearAfter \notin Policies)
          => /\ clearSettings'.status = 400
             /\ conversations' = conversations]_vars

\* a request with a value outside the four, for a conversation that exists
\* and whose policy an earlier request had set, was answered 400
C23_Witness ==
  /\ clearSettings.status = 400
  /\ clearSettings.id \in Conversations
  /\ clearSettings.autoClearAfter \notin Policies
  /\ conversations["conv8"].autoClearAfter # "24h"
====
